---- MODULE Spec2Model ----
(***************************************************************************)
(* Model of drivers/pwm/pwm-ocores.c, the OpenCores PTC PWM driver.        *)
(*                                                                         *)
(* Number representation.  TLC's integers are 32-bit, the driver's are u32 *)
(* and u64.  A u32 or u64 value of the driver is therefore a little-endian *)
(* sequence of bytes (4 or 8 of them): <<b1, ..., bn>> stands for          *)
(* b1 + 256*b2 + ... + 256^(n-1)*bn.  Arithmetic on these sequences wraps  *)
(* at the sequence's length exactly as the C type wraps at its width.  The *)
(* clock rate (u32 clk_rate) and register addresses are plain integers;    *)
(* the model draws clock rates below 2^30.                                 *)
(***************************************************************************)
EXTENDS Integers, Sequences, FiniteSets, TLC

(***************************************************************************)
(* Fixed-width unsigned arithmetic on byte sequences.                      *)
(***************************************************************************)
U32Len == 4
U64Len == 8
\* wide enough for u64 * u32 without wrapping: the unbounded reference
WideLen == U64Len + U32Len

Zero(len) == [i \in 1..len |-> 0]

RECURSIVE ToBytes(_, _)
\* the natural n (a TLC integer) as len bytes, truncated to the width
ToBytes(n, len) ==
    IF len = 0 THEN <<>> ELSE <<n % 256>> \o ToBytes(n \div 256, len - 1)

\* zero-extension or truncation to len bytes (a C integer conversion)
Resize(a, len) == [i \in 1..len |-> IF i <= Len(a) THEN a[i] ELSE 0]

RECURSIVE AddFrom(_, _, _, _)
AddFrom(a, b, i, carry) ==
    IF i > Len(a) THEN <<>>
    ELSE LET s == a[i] + b[i] + carry
         IN  <<s % 256>> \o AddFrom(a, b, i + 1, s \div 256)

\* a + b modulo 256^Len(a); b has the length of a
AddBytes(a, b) == AddFrom(a, b, 1, 0)

RECURSIVE SubFrom(_, _, _, _)
SubFrom(a, b, i, borrow) ==
    IF i > Len(a) THEN <<>>
    ELSE LET s == a[i] - b[i] - borrow
         IN  <<(s + 256) % 256>> \o SubFrom(a, b, i + 1, IF s < 0 THEN 1 ELSE 0)

\* a - b modulo 256^Len(a)
SubBytes(a, b) == SubFrom(a, b, 1, 0)

RECURSIVE LeqFrom(_, _, _)
LeqFrom(a, b, i) ==
    IF i = 0 THEN TRUE
    ELSE IF a[i] # b[i] THEN a[i] < b[i]
    ELSE LeqFrom(a, b, i - 1)

\* a <= b as unsigned numbers of the same length
LeqBytes(a, b) == LeqFrom(a, b, Len(a))

RECURSIVE ScaleFrom(_, _, _, _)
\* a * m for one byte m, modulo 256^Len(a)
ScaleFrom(a, m, i, carry) ==
    IF i > Len(a) THEN <<>>
    ELSE LET s == a[i] * m + carry
         IN  <<s % 256>> \o ScaleFrom(a, m, i + 1, s \div 256)

\* a * 256^k modulo 256^Len(a)
ShiftBytes(a, k) == [i \in 1..Len(a) |-> IF i <= k THEN 0 ELSE a[i - k]]

RECURSIVE MulFrom(_, _, _)
MulFrom(a, b, j) ==
    IF j > Len(b) THEN Zero(Len(a))
    ELSE IF b[j] = 0 THEN MulFrom(a, b, j + 1)
    ELSE AddBytes(ShiftBytes(ScaleFrom(a, b[j], 1, 0), j - 1), MulFrom(a, b, j + 1))

\* a * b modulo 256^Len(a): the C product of two unsigned values of a's width
MulBytes(a, b) == IF a = Zero(Len(a)) THEN a ELSE MulFrom(a, b, 1)

RECURSIVE DivByte(_, _, _, _, _)
\* eight steps of binary long division: the remainder r so far, the next
\* dividend byte, the bit k to bring down, the quotient byte q so far
DivByte(r, byte, k, d, q) ==
    IF k < 0 THEN [q |-> q, r |-> r]
    ELSE LET r2 == 2 * r + ((byte \div (2 ^ k)) % 2)
         IN  IF r2 >= d THEN DivByte(r2 - d, byte, k - 1, d, 2 * q + 1)
             ELSE DivByte(r2, byte, k - 1, d, 2 * q)

RECURSIVE DivFrom(_, _, _, _)
DivFrom(a, d, i, r) ==
    IF i = 0 THEN <<>>
    ELSE IF r < 4194304
         \* r * 256 + a[i] fits a machine integer: the byte in one step
         THEN LET t == r * 256 + a[i]
              IN  Append(DivFrom(a, d, i - 1, t % d), t \div d)
    ELSE LET s == DivByte(r, a[i], 7, d, 0)
         IN  Append(DivFrom(a, d, i - 1, s.r), s.q)

\* the quotient a / d of an unsigned value by a divisor 0 < d <= 2^30.
\* A zero divisor gives the all-ones quotient of the RISC-V divu instruction.
DivBytes(a, d) ==
    IF d = 0 THEN [i \in 1..Len(a) |-> 255] ELSE DivFrom(a, d, Len(a), 0)


(***************************************************************************)
(* Bitwise operations on register values.                                  *)
(***************************************************************************)
RECURSIVE OrNat(_, _)
OrNat(x, y) ==
    IF x = 0 THEN y
    ELSE IF y = 0 THEN x
    ELSE (IF x % 2 = 1 \/ y % 2 = 1 THEN 1 ELSE 0) + 2 * OrNat(x \div 2, y \div 2)

RECURSIVE AndNat(_, _)
AndNat(x, y) ==
    IF x = 0 \/ y = 0 THEN 0
    ELSE (IF x % 2 = 1 /\ y % 2 = 1 THEN 1 ELSE 0) + 2 * AndNat(x \div 2, y \div 2)

OrBytes(a, b) == [i \in 1..Len(a) |-> OrNat(a[i], b[i])]
AndBytes(a, b) == [i \in 1..Len(a) |-> AndNat(a[i], b[i])]
NotBytes(a) == [i \in 1..Len(a) |-> 255 - a[i]]

\* bit k (0 = least significant) of a register value
Bit(a, k) == (a[(k \div 8) + 1] \div (2 ^ (k % 8))) % 2

(***************************************************************************)
(* Constants of the driver.                                                *)
(***************************************************************************)
OFF_CNTR == 0
OFF_HRC == 4
OFF_LRC == 8
OFF_CTRL == 12
REG_OCPWM_CNTR(base) == base + OFF_CNTR
REG_OCPWM_HRC(base) == base + OFF_HRC
REG_OCPWM_LRC(base) == base + OFF_LRC
REG_OCPWM_CTRL(base) == base + OFF_CTRL

OCPWM_EN == 1
OCPWM_OE == 8

NSEC_PER_SEC == 1000000000
EINVAL == 22
ENOMEM == 12

\* chip->npwm
NPWM == 8
Channels == 0..(NPWM - 1)

\* the address devm_platform_ioremap_resource returns for the register window
IoBase == 302841856

\* the second register bank of the JH71x0 layout, 1 << 15
Bank2 == 32768

(***************************************************************************)
(* Bounds and input sets of the model.                                     *)
(***************************************************************************)
\* calls of apply made on one controller (get_state only reads: unbounded)
MaxApply == 1

\* what clk_get_rate may report (Hz)
ClkRates == {0, 24000000}

U64(n) == ToBytes(n, U64Len)
U32(n) == ToBytes(n, U32Len)
\* s seconds and n nanoseconds as u64 nanoseconds
Nsec(s, n) == AddBytes(MulBytes(U64(s), U64(NSEC_PER_SEC)), U64(n))

PWM_POLARITY_NORMAL == "normal"
PWM_POLARITY_INVERSED == "inversed"

PwmState(period, duty_cycle, polarity, enabled) ==
    [period |-> period, duty_cycle |-> duty_cycle,
     polarity |-> polarity, enabled |-> enabled]

\* the states callers request: the example of the specification, a period of
\* 200 s and a duty cycle of 2^40 ns, a sub-tick request, the largest u64, and
\* requests with the polarity the hardware lacks
Requests ==
    { PwmState(Nsec(0, 1000000), Nsec(0, 250000), PWM_POLARITY_INVERSED, TRUE),
      PwmState(Nsec(200, 0), Nsec(1099, 511627776), PWM_POLARITY_INVERSED, FALSE),
      PwmState([i \in 1..U64Len |-> 255], Nsec(0, 7), PWM_POLARITY_INVERSED, TRUE),
      PwmState(Nsec(0, 1000000), Nsec(0, 250000), PWM_POLARITY_NORMAL, TRUE),
      PwmState(Nsec(0, 20), Nsec(0, 0), PWM_POLARITY_NORMAL, FALSE) }


(***************************************************************************)
(* State.                                                                  *)
(***************************************************************************)
VARIABLES
    compatible, \* the device's compatible string: which of_match entry matches, if any
    phase,      \* "unbound", "bound", "oops", "probe_failed", "removed", "released"
    env,        \* what the platform answered during probe
    probe_ret,  \* the value probe returned
    pwm,        \* struct ocores_pwm_device: data, regs, clk_rate
    clk,        \* the clock: calls of enable and of disable so far
    rst,        \* the reset line: present, line ("asserted"/"deasserted"), deasserted once
    devres,     \* the device-managed resources, in acquisition order
    registered, \* the chip is registered with the PWM framework
    mem,        \* the register window: address -> u32
    pre,        \* the register window before the last call of apply
    io,         \* the register accesses of the last call, in order
    applied,    \* the last call of apply
    last,       \* the last call, of apply or of get_state
    napply      \* calls of apply so far

vars == <<compatible, phase, env, probe_ret, pwm, clk, rst, devres, registered,
          mem, pre, io, applied, last, napply>>

(***************************************************************************)
(* The register window.                                                    *)
(***************************************************************************)
RegOffsets == {OFF_CNTR, OFF_HRC, OFF_LRC, OFF_CTRL}

\* the registers the window holds: a block per channel in the flat layout,
\* and the four blocks of the second bank
Addresses ==
    {IoBase + 16 * k + o : k \in Channels, o \in RegOffsets}
        \cup {IoBase + Bank2 + 16 * k + o : k \in 0..3, o \in RegOffsets}

\* what the hardware holds before the driver touches it
ResetValue(addr) ==
    LET o == (addr - IoBase) % 16
        k == ((addr - IoBase) \div 16) % 4
    IN  IF o = OFF_CNTR THEN U32(7)
        ELSE IF o = OFF_CTRL
             THEN CASE k = 0 -> U32(32)
                    [] k = 1 -> [i \in 1..U32Len |-> 255]
                    [] k = 2 -> U32(9)
                    [] OTHER -> U32(502)
        ELSE U32(0)

InitMem == [a \in Addresses |-> ResetValue(a)]

readl(m, addr) == m[addr]

Rd(addr, val) == [op |-> "readl", addr |-> addr, val |-> val]
Wr(addr, val) == [op |-> "writel", addr |-> addr, val |-> val]

RECURSIVE Exec(_, _)
\* the register window after the accesses of acc, in order
Exec(m, acc) ==
    IF acc = <<>> THEN m
    ELSE LET a == Head(acc)
         IN  Exec(IF a.op = "writel" THEN [m EXCEPT ![a.addr] = a.val] ELSE m, Tail(acc))

(***************************************************************************)
(* Channel address resolution.                                             *)
(***************************************************************************)
\* an off-by-one in the bank test: channel 4 stays in the first bank
get_ch_base_bank_off_by_one(base, channel) ==
    base + (IF channel > 4 THEN (channel % 4) * 16 + Bank2 ELSE channel * 16)

starfive_jh71x0_get_ch_base(base, channel) ==
    base + (IF channel > 3 THEN (channel % 4) * 16 + Bank2 ELSE channel * 16)

\* of_match_device(ocores_pwm_of_match, dev): the entry of the table the
\* device's compatible matches, "none" when it matches no entry
of_match_device(compat) ==
    IF compat \in {"opencores,pwm-ocores", "starfive,jh71x0-pwm"} THEN compat
    ELSE "none"

\* id->data of the of_match entry
MatchData(id) ==
    IF id = "starfive,jh71x0-pwm" THEN "jh71x0_pwm_data" ELSE "NULL"

Fault == -1

\* pwm->data->get_ch_base ? pwm->data->get_ch_base(pwm->regs, hwpwm) : pwm->regs.
\* With pwm->data NULL the load of get_ch_base reads through a null pointer:
\* the call faults, or the load yields NULL and the base is pwm->regs.
ResolveBase(p, channel) ==
    IF p.data = "NULL" THEN {Fault, p.regs}
    ELSE {starfive_jh71x0_get_ch_base(p.regs, channel)}

(***************************************************************************)
(* Conversions.                                                            *)
(***************************************************************************)
\* DIV_ROUND_CLOSEST_ULL(x, divisor): _tmp = x + divisor / 2 in 64 bits, then
\* do_div(_tmp, divisor)
DIV_ROUND_CLOSEST_ULL(x, divisor) ==
    DivBytes(AddBytes(x, U64(divisor \div 2)), divisor)

\* ticks written for a duration: the u64 product state->period * pwm->clk_rate,
\* divided, and stored in a u32
ns_to_ticks(ns, clk_rate) ==
    Resize(DIV_ROUND_CLOSEST_ULL(MulBytes(ns, U64(clk_rate)), NSEC_PER_SEC), U32Len)

\* duration reported for a tick count: (u64)ticks * NSEC_PER_SEC, divided by clk_rate
ticks_to_ns(ticks, clk_rate) ==
    DIV_ROUND_CLOSEST_ULL(MulBytes(Resize(ticks, U64Len), U64(NSEC_PER_SEC)), clk_rate)

\* the enable bits written without the bits read: OCPWM_EN | OCPWM_OE
ctrl_enable_clobber(ctrl_data) == U32(OrNat(OCPWM_EN, OCPWM_OE))

\* CTRL written back when the state is enabled: ctrl_data | OCPWM_EN | OCPWM_OE
ctrl_enable(ctrl_data) == OrBytes(ctrl_data, U32(OrNat(OCPWM_EN, OCPWM_OE)))

\* CTRL written back when the state is disabled: ctrl_data & ~(OCPWM_EN | OCPWM_OE)
ctrl_disable(ctrl_data) == AndBytes(ctrl_data, NotBytes(U32(OrNat(OCPWM_EN, OCPWM_OE))))

(***************************************************************************)
(* The PWM operations, as the accesses they make and what they return.     *)
(***************************************************************************)
NoState == PwmState(U64(0), U64(0), "none", FALSE)

\* ocores_pwm_get_state on a resolved base: three reads, then the conversion
get_state_io(m, base) ==
    << Rd(REG_OCPWM_LRC(base), readl(m, REG_OCPWM_LRC(base))),
       Rd(REG_OCPWM_HRC(base), readl(m, REG_OCPWM_HRC(base))),
       Rd(REG_OCPWM_CTRL(base), readl(m, REG_OCPWM_CTRL(base))) >>

ocores_pwm_get_state(p, m, base) ==
    LET period_data == readl(m, REG_OCPWM_LRC(base))
        duty_data == readl(m, REG_OCPWM_HRC(base))
        ctrl_data == readl(m, REG_OCPWM_CTRL(base))
    IN  PwmState(ticks_to_ns(period_data, p.clk_rate),
                 ticks_to_ns(duty_data, p.clk_rate),
                 PWM_POLARITY_INVERSED,
                 AndNat(ctrl_data[1], OCPWM_EN) # 0)

\* the counter reset moved behind the CTRL write-back
apply_io_late_reset(p, m, base, state) ==
    LET period_data == ns_to_ticks(state.period, p.clk_rate)
        duty_data == ns_to_ticks(state.duty_cycle, p.clk_rate)
        ctrl_data == readl(m, REG_OCPWM_CTRL(base))
    IN  << Wr(REG_OCPWM_LRC(base), period_data),
           Wr(REG_OCPWM_HRC(base), duty_data),
           Rd(REG_OCPWM_CTRL(base), ctrl_data),
           Wr(REG_OCPWM_CTRL(base),
              IF state.enabled THEN ctrl_enable(ctrl_data) ELSE ctrl_disable(ctrl_data)),
           Wr(REG_OCPWM_CNTR(base), U32(0)) >>

\* ocores_pwm_apply on a resolved base, past the polarity check: the accesses
apply_io(p, m, base, state) ==
    LET period_data == ns_to_ticks(state.period, p.clk_rate)
        duty_data == ns_to_ticks(state.duty_cycle, p.clk_rate)
        ctrl_data == readl(m, REG_OCPWM_CTRL(base))
    IN  << Wr(REG_OCPWM_LRC(base), period_data),
           Wr(REG_OCPWM_HRC(base), duty_data),
           Wr(REG_OCPWM_CNTR(base), U32(0)),
           Rd(REG_OCPWM_CTRL(base), ctrl_data),
           Wr(REG_OCPWM_CTRL(base),
              IF state.enabled THEN ctrl_enable(ctrl_data) ELSE ctrl_disable(ctrl_data)) >>

\* the polarity check of ocores_pwm_apply
polarity_supported(state) == state.polarity = PWM_POLARITY_INVERSED

ocores_pwm_apply(p, m, base, state) ==
    IF ~polarity_supported(state)
    THEN [ret |-> -EINVAL, io |-> <<>>]
    ELSE [ret |-> 0, io |-> apply_io(p, m, base, state)]

Call(op, ch, state, base, oops, ret, out) ==
    [op |-> op, ch |-> ch, state |-> state, base |-> base, oops |-> oops,
     ret |-> ret, out |-> out]

NoCall == Call("none", 0, NoState, Fault, FALSE, 0, NoState)

unchanged_device == UNCHANGED <<compatible, env, probe_ret, pwm, clk, rst,
                                devres, registered>>

\* the framework serves calls from devm_pwmchip_add until the managed release
\* of the chip, so also between remove and the cleanup; a call that faults
\* ends in a kernel oops, after which nothing more is modelled
Callable == registered /\ phase # "oops"

\* the framework calls .apply on a registered chip
Apply(ch, state) ==
    /\ Callable
    /\ napply < MaxApply
    /\ \E base \in ResolveBase(pwm, ch) :
         LET r == IF base = Fault THEN [ret |-> 0, io |-> <<>>]
                  ELSE ocores_pwm_apply(pwm, mem, base, state)
         IN  /\ io' = r.io
             /\ mem' = Exec(mem, r.io)
             /\ last' = Call("apply", ch, state, base, base = Fault, r.ret, NoState)
             /\ phase' = IF base = Fault THEN "oops" ELSE phase
    /\ applied' = last'
    /\ pre' = mem
    /\ napply' = napply + 1
    /\ unchanged_device

\* the framework calls .get_state on a registered chip
GetState(ch) ==
    /\ Callable
    /\ \E base \in ResolveBase(pwm, ch) :
         IF base = Fault
         THEN /\ io' = <<>>
              /\ phase' = "oops"
              /\ last' = Call("get_state", ch, NoState, base, TRUE, 0, NoState)
         ELSE /\ io' = get_state_io(mem, base)
              /\ phase' = phase
              /\ last' = Call("get_state", ch, NoState, base, FALSE, 0,
                              ocores_pwm_get_state(pwm, mem, base))
    /\ UNCHANGED <<mem, pre, applied, napply>>
    /\ unchanged_device


(***************************************************************************)
(* Probe, remove and the device-managed cleanup.                           *)
(***************************************************************************)
ProbeEnvs ==
    [kzalloc : BOOLEAN,            \* devm_kzalloc succeeds
     ioremap : {0, -ENOMEM},       \* devm_platform_ioremap_resource: 0 or PTR_ERR
     clk : {0, -ENOMEM},           \* devm_clk_get_enabled: 0 or PTR_ERR
     rst_present : BOOLEAN,        \* the optional reset line exists
     rate : ClkRates,              \* clk_get_rate
     add : {0, -ENOMEM}]           \* devm_pwmchip_add

Unprobed ==
    [ret |-> 0,
     pwm |-> [data |-> "NULL", regs |-> Fault, clk_rate |-> 0],
     clk |-> [enables |-> 0, disables |-> 0],
     rst |-> [present |-> FALSE, line |-> "asserted", deasserted |-> FALSE],
     devres |-> <<>>,
     registered |-> FALSE]

\* reset_control_deassert / reset_control_assert: no-ops on a NULL control
reset_control_deassert(r) ==
    IF r.present THEN [r EXCEPT !.line = "deasserted", !.deasserted = TRUE] ELSE r
reset_control_assert(r) ==
    IF r.present THEN [r EXCEPT !.line = "asserted"] ELSE r

clk_disable_unprepare(c) == [c EXCEPT !.disables = @ + 1]

\* the test of a signed rate, never true of the unsigned clk_rate
clk_rate_negative(clk_rate) == clk_rate < 0

\* if (pwm->clk_rate <= 0)
clk_rate_invalid(clk_rate) == clk_rate <= 0

\* ocores_pwm_probe, step by step; each s<n> is the state a step leaves
ocores_pwm_probe(compat, e) ==
    LET id == of_match_device(compat)
        s1 == [Unprobed EXCEPT !.devres = <<"kzalloc">>,
                               !.pwm.data = MatchData(id)]
        s2 == [s1 EXCEPT !.devres = Append(@, "ioremap"), !.pwm.regs = IoBase]
        s3 == [s2 EXCEPT !.devres = Append(@, "clk"), !.clk.enables = @ + 1]
        s4 == [s3 EXCEPT !.devres = IF e.rst_present THEN Append(@, "rst") ELSE @,
                         !.rst = reset_control_deassert([@ EXCEPT !.present = e.rst_present])]
        s5 == [s4 EXCEPT !.pwm.clk_rate = e.rate]
    IN  IF id = "none" THEN [Unprobed EXCEPT !.ret = -EINVAL]
        ELSE IF ~e.kzalloc THEN [Unprobed EXCEPT !.ret = -ENOMEM]
        ELSE IF e.ioremap # 0 THEN [s1 EXCEPT !.ret = e.ioremap]
        ELSE IF e.clk # 0 THEN [s2 EXCEPT !.ret = e.clk]
        ELSE IF clk_rate_invalid(s5.pwm.clk_rate) THEN [s5 EXCEPT !.ret = -EINVAL]
        ELSE IF e.add < 0
             THEN [s5 EXCEPT !.clk = clk_disable_unprepare(@),
                             !.rst = reset_control_assert(@),
                             !.ret = e.add]
        ELSE [s5 EXCEPT !.devres = Append(@, "pwmchip"), !.registered = TRUE]

\* ocores_pwm_remove
ocores_pwm_remove(d) ==
    [d EXCEPT !.rst = reset_control_assert(@), !.clk = clk_disable_unprepare(@)]

RECURSIVE devres_release_all(_)
\* the driver core releases the managed resources, last acquired first:
\* the chip is unregistered, the reset control put, the clock disabled and put,
\* the window unmapped, the memory freed
devres_release_all(d) ==
    IF d.devres = <<>> THEN d
    ELSE LET n == Len(d.devres)
             what == d.devres[n]
             rest == [d EXCEPT !.devres = SubSeq(@, 1, n - 1)]
         IN  devres_release_all(
                 CASE what = "pwmchip" -> [rest EXCEPT !.registered = FALSE]
                   [] what = "clk" -> [rest EXCEPT !.clk = clk_disable_unprepare(@)]
                   [] OTHER -> rest)

Device ==
    [ret |-> probe_ret, pwm |-> pwm, clk |-> clk, rst |-> rst, devres |-> devres,
     registered |-> registered]

SetDevice(d) ==
    /\ probe_ret' = d.ret
    /\ pwm' = d.pwm
    /\ clk' = d.clk
    /\ rst' = d.rst
    /\ devres' = d.devres
    /\ registered' = d.registered

unchanged_calls == UNCHANGED <<mem, pre, io, applied, last, napply>>

\* the driver core binds the device: probe runs with what the platform answers
Probe(e) ==
    /\ phase = "unbound"
    /\ env' = e
    /\ LET d == ocores_pwm_probe(compatible, e)
       IN  /\ SetDevice(d)
           /\ phase' = IF d.ret = 0 THEN "bound" ELSE "probe_failed"
    /\ UNCHANGED compatible
    /\ unchanged_calls

\* the driver core unbinds the device
Remove ==
    /\ phase = "bound"
    /\ SetDevice(ocores_pwm_remove(Device))
    /\ phase' = "removed"
    /\ UNCHANGED <<compatible, env>>
    /\ unchanged_calls

\* after a failed probe and after remove, the managed resources are released
DevresRelease ==
    /\ phase \in {"probe_failed", "removed"}
    /\ SetDevice(devres_release_all(Device))
    /\ phase' = "released"
    /\ UNCHANGED <<compatible, env>>
    /\ unchanged_calls

(***************************************************************************)
(* The specification.                                                      *)
(***************************************************************************)
\* the compatible of the device probed: the two of the match table, and one
\* of a device bound by the driver's name that matches no entry
Compatibles == {"opencores,pwm-ocores", "starfive,jh71x0-pwm", "vendor,other-pwm"}

NoEnv == [kzalloc |-> FALSE, ioremap |-> 0, clk |-> 0, rst_present |-> FALSE,
          rate |-> 0, add |-> 0]

Init ==
    /\ compatible \in Compatibles
    /\ phase = "unbound"
    /\ env = NoEnv
    /\ probe_ret = Unprobed.ret
    /\ pwm = Unprobed.pwm
    /\ clk = Unprobed.clk
    /\ rst = Unprobed.rst
    /\ devres = Unprobed.devres
    /\ registered = Unprobed.registered
    /\ mem = InitMem
    /\ pre = InitMem
    /\ io = <<>>
    /\ applied = NoCall
    /\ last = NoCall
    /\ napply = 0

Next ==
    \/ \E e \in ProbeEnvs : Probe(e)
    \/ Remove
    \/ DevresRelease
    \/ \E ch \in Channels, state \in Requests : Apply(ch, state)
    \/ \E ch \in Channels : GetState(ch)

Spec == Init /\ [][Next]_vars

(***************************************************************************)
(* Properties.                                                             *)
(***************************************************************************)
Inversed(c) == c.state.polarity = PWM_POLARITY_INVERSED

\* the call c ran to its return with success
Succeeded(c) == c.op = "apply" /\ ~c.oops /\ c.ret = 0

\* the four registers of the block at base
Block(base) == {base + o : o \in RegOffsets}

\* |a - b| <= tol for u64 values
Within(a, b, tol) ==
    IF LeqBytes(a, b) THEN LeqBytes(SubBytes(b, a), U64(tol))
    ELSE LeqBytes(SubBytes(a, b), U64(tol))

\* ceil(1e9 / clk_rate)
RoundingUnit(clk_rate) == (NSEC_PER_SEC + clk_rate - 1) \div clk_rate

\* round_to_nearest(ns * clk_rate / 1e9) over integers wide enough never to wrap
WideTicks(ns, clk_rate) ==
    DivBytes(AddBytes(MulBytes(Resize(ns, WideLen), ToBytes(clk_rate, WideLen)),
                      ToBytes(NSEC_PER_SEC \div 2, WideLen)),
             NSEC_PER_SEC)

\* C1: a successful apply followed by get_state on the same channel (no other
\* apply in between; get_state only reads) returns a period and a duty cycle
\* within ceil(1e9 / clk_rate) ns of the requested ones, and the requested enabled.
C1_RoundTrip ==
    (last.op = "get_state" /\ ~last.oops /\ Succeeded(applied) /\ applied.ch = last.ch)
        => /\ Within(last.out.period, applied.state.period, RoundingUnit(pwm.clk_rate))
           /\ Within(last.out.duty_cycle, applied.state.duty_cycle,
                     RoundingUnit(pwm.clk_rate))
           /\ last.out.enabled = applied.state.enabled

\* C2: apply with a polarity other than inversed returns -EINVAL and writes no
\* register: the register window is what it was before the call.
C2_PolarityRejected ==
    (applied.op = "apply" /\ ~Inversed(applied))
        => /\ ~applied.oops
           /\ applied.ret = -EINVAL
           /\ mem = pre
           /\ (last = applied => io = <<>>)

\* C3: on the generic variant (no resolver supplied) the block get_state and
\* apply access for channel i is controller_base + i*0x10.
C3_DefaultPolicy ==
    (compatible = "opencores,pwm-ocores" /\ last.op # "none")
        => /\ last.base = pwm.regs + last.ch * 16
           /\ \A k \in 1..Len(io) : io[k].addr \in Block(pwm.regs + last.ch * 16)

\* the channel base the alternate policy is specified to give
AlternateBase(base, i) ==
    IF i < 4 THEN base + i * 16 ELSE base + (i % 4) * 16 + 32768

\* C4: on the starfive,jh71x0-pwm variant the resolved base of channel i is
\* controller_base + i*0x10 for i in [0,4) and controller_base + (i%4)*0x10 +
\* 0x8000 for i in [4,8), and get_state and apply access that block only.
C4_AlternatePolicy ==
    (compatible = "starfive,jh71x0-pwm" /\ last.op # "none")
        => /\ ~last.oops
           /\ last.base = AlternateBase(pwm.regs, last.ch)
           /\ \A k \in 1..Len(io) : io[k].addr \in Block(AlternateBase(pwm.regs, last.ch))
           /\ last.op = "get_state" => Len(io) = 3
           /\ applied.op = "apply"
                => /\ applied.base = AlternateBase(pwm.regs, applied.ch)
                   /\ \A a \in Addresses \ Block(AlternateBase(pwm.regs, applied.ch)) :
                        mem[a] = pre[a]

C4_Witness ==
    /\ compatible = "starfive,jh71x0-pwm"
    /\ Succeeded(applied) /\ applied.ch = 6
    /\ last.op = "get_state" /\ last.ch = 6
    /\ last.base = IoBase + 32 + 32768

\* C5: a successful apply with enabled=true leaves CTRL = c | (EN | OE), one
\* with enabled=false leaves CTRL = c & ~(EN | OE), c being CTRL before the
\* call: bits 0 and 3 are set or cleared, every other bit keeps its value.
C5_CtrlBits ==
    Succeeded(applied)
        => \A k \in 0..31 :
             Bit(mem[applied.base + 12], k) =
                 IF k \in {0, 3} THEN (IF applied.state.enabled THEN 1 ELSE 0)
                 ELSE Bit(pre[applied.base + 12], k)

\* the example of the specification: CTRL 0b0010_0000 becomes 0b0010_1001
C5_Witness ==
    /\ Succeeded(applied) /\ applied.state.enabled
    /\ pre[applied.base + 12] = U32(32)
    /\ mem[applied.base + 12] = U32(41)

\* C6: the values apply writes to LRC and HRC are
\* round_to_nearest(ns * clk_rate / 1e9) computed over unbounded integers:
\* nothing wraps before the division, nothing is truncated when stored.
C6_TickConversion ==
    Succeeded(applied)
        => /\ Resize(mem[applied.base + 8], WideLen)
                = WideTicks(applied.state.period, pwm.clk_rate)
           /\ Resize(mem[applied.base + 4], WideLen)
                = WideTicks(applied.state.duty_cycle, pwm.clk_rate)

\* probe got as far as clk_get_rate and was told 0
RateZeroReported ==
    /\ phase # "unbound"
    /\ compatible \in {"opencores,pwm-ocores", "starfive,jh71x0-pwm"}
    /\ env.kzalloc /\ env.ioremap = 0 /\ env.clk = 0
    /\ env.rate = 0

\* C7: when clk_get_rate reports 0, probe returns -EINVAL, the chip is never
\* registered (no apply or get_state runs), and no register is read or written.
C7_ZeroRateRejected ==
    RateZeroReported
        => /\ probe_ret = -EINVAL
           /\ ~registered
           /\ phase \in {"probe_failed", "released"}
           /\ napply = 0 /\ last = NoCall /\ applied = NoCall
           /\ io = <<>>
           /\ mem = InitMem

C7_Witness ==
    RateZeroReported /\ probe_ret = -EINVAL /\ phase = "released"

\* C8: once probe has failed, or succeeded and been followed by remove, and the
\* device-managed cleanup has run, the clock has been disabled exactly as often
\* as it was enabled, and a reset line that was deasserted is asserted again.
C8_BalancedRelease ==
    phase = "released"
        => /\ clk.disables = clk.enables
           /\ rst.deasserted => rst.line = "asserted"

\* the base the driver resolves for a channel when the call does not fault
ChannelBase(j) == CHOOSE b \in ResolveBase(pwm, j) : b # Fault

\* the channels the specification declares aliased: k and k+4 under the
\* alternate policy, none under the flat one
DeclaredAliased(i, j) ==
    compatible = "starfive,jh71x0-pwm" /\ i % 4 = j % 4

\* C9: an apply on channel i leaves CNTR, HRC, LRC and CTRL of every other
\* channel j unchanged, unless the specification declares i and j aliased.
C9_ChannelIndependence ==
    (applied.op = "apply" /\ ~applied.oops)
        => \A j \in Channels \ {applied.ch} :
             ~DeclaredAliased(applied.ch, j)
                => \A a \in Block(ChannelBase(j)) : mem[a] = pre[a]

\* C10: an apply that passes the polarity check returns success after exactly
\* four writes: LRC, HRC and CNTR (0) are written before CTRL is read, the
\* CTRL write-back is the last access, and CNTR holds 0 then; an apply that
\* does not pass it writes nothing.  (A call that faults while resolving its
\* base never reaches the polarity check.)
C10_WriteSequence ==
    (last.op = "apply" /\ ~last.oops)
        => IF Inversed(last)
           THEN /\ last.ret = 0
                /\ Len(io) = 5
                /\ Cardinality({k \in 1..Len(io) : io[k].op = "writel"}) = 4
                /\ io[1] = Wr(last.base + 8, ns_to_ticks(last.state.period, pwm.clk_rate))
                /\ io[2] = Wr(last.base + 4, ns_to_ticks(last.state.duty_cycle, pwm.clk_rate))
                /\ io[3] = Wr(last.base, U32(0))
                /\ io[4] = Rd(last.base + 12, pre[last.base + 12])
                /\ io[5].op = "writel" /\ io[5].addr = last.base + 12
                /\ mem[last.base + 8] = io[1].val
                /\ mem[last.base + 4] = io[2].val
                /\ mem[last.base] = U32(0)
                /\ mem[last.base + 12] = io[5].val
           ELSE last.ret # 0 /\ io = <<>> /\ mem = pre

C10_Witness ==
    /\ last.op = "apply" /\ Succeeded(last) /\ Len(io) = 5
    /\ last.state.enabled /\ mem[last.base] = U32(0) /\ pre[last.base] = U32(7)
====
